---- MODULE Spec2Model ----
(***************************************************************************)
(* The v1 scrape controller (apps/api/src/controllers/v1/scrape.ts) as a   *)
(* state machine.  One HTTP request is one invocation of scrapeController:  *)
(* it runs from its entry to the await on startWebScraperPipeline, is      *)
(* suspended while the pipeline runs, and its continuation (the rest of    *)
(* the try block, or the catch block) runs to completion once the pipeline *)
(* has settled.  Several invocations interleave at the await.              *)
(*                                                                         *)
(* JavaScript strings that the code inspects (origin.includes, the error   *)
(* template) are sequences of one-character strings; an optional value is  *)
(* a sequence of length at most one (<<>> is undefined).                   *)
(***************************************************************************)
EXTENDS Naturals, Sequences, FiniteSets

VARIABLES
    body,      \* req.body of each request, as submitted
    site,      \* what the pipeline will produce for each request's job
    pc,        \* position of each invocation of scrapeController
    frame,     \* the invocation's locals (lines 23-33), once they exist
    calls,     \* invocations of startWebScraperPipeline made by each request
    pipe,      \* state of the promise returned by startWebScraperPipeline
    result,    \* the settled value of that promise (docs is mutated in place)
    sent,      \* responses written to res by each invocation
    nextUuid,  \* source of fresh uuidv4() values
    now        \* wall clock, new Date().getTime()

vars == <<body, site, pc, frame, calls, pipe, result, sent, nextUuid, now>>

----------------------------------------------------------------------------
(* Bounds *)

MaxDocs == 2        \* longest docs array the pipeline returns
MaxTimeout == 1     \* largest request timeout, in clock ticks
MaxNow == MaxTimeout + 1   \* the clock stops after the largest timeout has elapsed

----------------------------------------------------------------------------
(* Values *)

Requests == {"r1", "r2"}

Absent == <<>>
Some(x) == <<x>>

UrlOf(r) == IF r = "r1" THEN "https://a.test/" ELSE "https://b.test/"
TeamOf(r) == IF r = "r1" THEN "team-a" ELSE "team-b"

EmptyStr == <<>>
S_website == <<"w","e","b","s","i","t","e">>
S_api == <<"a","p","i">>
S_web == <<"w","e","b","-","s","i","t","e">>
S_mywebsite == <<"m","y","-","w","e","b","s","i","t","e","-","1">>
S_boom == <<"b","o","o","m">>
S_down == <<"d","o","w","n">>
S_Error == <<"E","r","r","o","r">>
S_TypeError == <<"T","y","p","e","E","r","r","o","r">>
S_InternalPrefix == <<"(","I","n","t","e","r","n","a","l"," ","s","e","r","v","e","r"," ","e","r","r","o","r",")"," ","-"," ">>
S_LLMSuffix == <<" ","-"," ","C","o","u","l","d"," ","b","e"," ","d","u","e"," ","t","o"," ","L","L","M"," ","p","a","r","s","i","n","g"," ","i","s","s","u","e","s">>
S_CannotRead == <<"C","a","n","n","o","t"," ","r","e","a","d"," ","p","r","o","p","e","r","t","i","e","s">>

\* String.prototype.includes
Includes(s, sub) ==
    \E i \in 1..(Len(s) + 1) :
        /\ i + Len(sub) - 1 <= Len(s)
        /\ SubSeq(s, i, i + Len(sub) - 1) = sub

\* JavaScript truthiness of an optional string
Truthy(opt) == opt # Absent /\ opt[1] # ""

\* Sequences over S of length at most n
RECURSIVE SeqUpTo(_, _)
SeqUpTo(S, n) ==
    IF n = 0 THEN {<<>>}
    ELSE LET shorter == SeqUpTo(S, n - 1)
         IN  shorter \cup {Append(s, x) : s \in {t \in shorter : Len(t) = n - 1}, x \in S}

----------------------------------------------------------------------------
(* Documents as the pipeline produces them *)

NullDoc == [null |-> TRUE]

DocValues(r) ==
    { NullDoc,
      [markdown |-> Some("# Hi"), rawHtml |-> Some("<h1>Hi</h1>"), sourceURL |-> UrlOf(r), pageError |-> Absent],
      [markdown |-> Some("# Hi"), rawHtml |-> Absent,              sourceURL |-> UrlOf(r), pageError |-> Absent],
      [markdown |-> Some(""),     rawHtml |-> Some(""),            sourceURL |-> UrlOf(r), pageError |-> Absent],
      [markdown |-> Absent,       rawHtml |-> Some("<h1>Hi</h1>"), sourceURL |-> UrlOf(r), pageError |-> Some("blocked")] }

Returned(ok, msg, ds) ==
    [kind |-> "return", success |-> ok, message |-> msg, docs |-> ds, thrown |-> Absent]

ErrorValue(n, m) == [isError |-> TRUE, name |-> n, message |-> m, str |-> EmptyStr]
StringValue(s) == [isError |-> FALSE, name |-> EmptyStr, message |-> EmptyStr, str |-> s]

Threw(e) ==
    [kind |-> "throw", success |-> FALSE, message |-> EmptyStr, docs |-> <<>>, thrown |-> Some(e)]

\* Everything startWebScraperPipeline may settle with for request r
Outcomes(r) ==
    {Returned(TRUE, EmptyStr, ds) : ds \in SeqUpTo(DocValues(r), MaxDocs)}
    \cup {Returned(FALSE, m, <<>>) : m \in {EmptyStr, S_boom}}
    \cup {Threw(e) : e \in {ErrorValue(S_Error, S_down), StringValue(S_down)}}

----------------------------------------------------------------------------
(* Request bodies *)

Formats == {"markdown", "rawHtml", "extract"}
Origins == {Absent, Some(S_api), Some(S_website), Some(S_mywebsite), Some(S_web)}

ValidBodies(r) ==
    [url : {Some(UrlOf(r))}, formats : SUBSET Formats, origin : Origins,
     timeout : 1..MaxTimeout, extract : BOOLEAN, unknownKeys : {FALSE}]

InvalidBodies(r) ==
    { [url |-> Some(UrlOf(r)), formats |-> {"markdown"}, origin |-> Some(S_website),
       timeout |-> 1, extract |-> FALSE, unknownKeys |-> TRUE],
      [url |-> Absent, formats |-> {"markdown"}, origin |-> Absent,
       timeout |-> 1, extract |-> FALSE, unknownKeys |-> FALSE] }

Bodies(r) == ValidBodies(r) \cup InvalidBodies(r)

----------------------------------------------------------------------------
(* Collaborators declared in ./types and ../../main/runWebScraper *)

\* scrapeRequestSchema.parse: a url is required and the option set is closed
SchemaAccepts(b) == b.url # Absent /\ ~b.unknownKeys /\ b.formats \subseteq Formats

\* legacyScrapeOptions: the requested formats as page-option flags
legacyScrapeOptions(b) ==
    [includeMarkdown |-> "markdown" \in b.formats,
     includeRawHtml  |-> "rawHtml" \in b.formats,
     includeExtract  |-> "extract" \in b.formats]

\* legacyExtractorOptions: extraction by LLM
legacyExtractorOptions == [mode |-> "llm-extraction"]

\* legacyDocumentConverter reads the fields of its argument: it raises a
\* TypeError on undefined or null
ConverterThrows(d) == d = Absent \/ d[1] = NullDoc

ConverterError == ErrorValue(S_TypeError, S_CannotRead)

\* legacyDocumentConverter: the legacy document as an API Document
legacyDocumentConverter(doc) ==
    [markdown |-> doc.markdown, rawHtml |-> doc.rawHtml,
     sourceUrl |-> doc.sourceURL, error |-> doc.pageError]

----------------------------------------------------------------------------
(* scrapeController, entry to the await *)

StatusOK == 200
StatusInternalError == 500
ScrapePriority == 100

\* faulty variant: the outcome of the parse is not acted upon
ProceedsPastParse_Unchecked(b) == TRUE

\* line 22: parse throws on a rejected body and the function is left
ProceedsPastParse(b) == SchemaAccepts(b)

\* faulty variant: earlyReturn starts out set
EarlyReturn_Set == TRUE

\* line 23
EarlyReturnInitial == FALSE

\* lines 28-30
ExtractorOptionsOf(b) == IF b.extract THEN Some(legacyExtractorOptions) ELSE Absent

\* lines 23-33: the locals of one invocation
NewFrame(b, id, t) ==
    [earlyReturn |-> EarlyReturnInitial,
     origin |-> b.origin,
     timeout |-> b.timeout,
     pageOptions |-> Some(legacyScrapeOptions(b)),
     extractorOptions |-> ExtractorOptionsOf(b),
     jobId |-> id,
     startTime |-> t]

\* faulty variant: the job is queued with the priority of a crawl page
PipelineCall_CrawlPagePriority(r, b, f) ==
    [id |-> f.jobId,
     token |-> f.jobId,
     url |-> b.url,
     mode |-> "single_urls",
     team_id |-> TeamOf(r),
     pageOptions |-> f.pageOptions,
     extractorOptions |-> f.extractorOptions,
     origin |-> b.origin,
     is_scrape |-> TRUE,
     priority |-> 2 * ScrapePriority]

\* lines 36-57: the argument of startWebScraperPipeline
PipelineCall(r, b, f) ==
    [id |-> f.jobId,
     token |-> f.jobId,
     url |-> b.url,
     mode |-> "single_urls",
     team_id |-> TeamOf(r),
     pageOptions |-> f.pageOptions,
     extractorOptions |-> f.extractorOptions,
     origin |-> b.origin,
     is_scrape |-> TRUE,
     priority |-> ScrapePriority]

----------------------------------------------------------------------------
(* scrapeController, after the await *)

\* faulty variant: only docs[0] is stripped of its rawHtml
StripRawHtml_FirstOnly(po, ds) ==
    IF po = Absent \/ ~po[1].includeRawHtml
    THEN [i \in DOMAIN ds |->
            IF i = 1 /\ ds[i] # NullDoc /\ Truthy(ds[i].rawHtml)
            THEN [ds[i] EXCEPT !.rawHtml = Absent]
            ELSE ds[i]]
    ELSE ds

\* lines 71-77
StripRawHtml(po, ds) ==
    IF po = Absent \/ ~po[1].includeRawHtml
    THEN [i \in DOMAIN ds |->
            IF ds[i] # NullDoc /\ Truthy(ds[i].rawHtml)
            THEN [ds[i] EXCEPT !.rawHtml = Absent]
            ELSE ds[i]]
    ELSE ds

\* faulty variant: the test of includeMarkdown (line 80) is missing
StripMarkdown_IgnoringIncludeMarkdown(po, ds) ==
    IF po # Absent /\ po[1].includeExtract
    THEN [i \in DOMAIN ds |->
            IF ds[i] # NullDoc /\ Truthy(ds[i].markdown)
            THEN [ds[i] EXCEPT !.markdown = Absent]
            ELSE ds[i]]
    ELSE ds

\* faulty variant: the test of includeExtract (line 79) is missing
StripMarkdown_IgnoringIncludeExtract(po, ds) ==
    IF po # Absent /\ ~po[1].includeMarkdown
    THEN [i \in DOMAIN ds |->
            IF ds[i] # NullDoc /\ Truthy(ds[i].markdown)
            THEN [ds[i] EXCEPT !.markdown = Absent]
            ELSE ds[i]]
    ELSE ds

\* lines 79-87
StripMarkdown(po, ds) ==
    IF po # Absent /\ po[1].includeExtract /\ ~po[1].includeMarkdown
    THEN [i \in DOMAIN ds |->
            IF ds[i] # NullDoc /\ Truthy(ds[i].markdown)
            THEN [ds[i] EXCEPT !.markdown = Absent]
            ELSE ds[i]]
    ELSE ds

\* faulty variant: the origin is compared with "website", not searched for it
ScrapeId_ExactMatch(origin, id) ==
    IF origin # Absent /\ origin[1] = S_website THEN Some(id) ELSE Absent

\* line 109
ScrapeId(origin, id) ==
    IF origin # Absent /\ Includes(origin[1], S_website) THEN Some(id) ELSE Absent

\* lines 106-110
OkResponse(f, doc) ==
    [status |-> StatusOK,
     body |-> [success |-> TRUE,
               data |-> legacyDocumentConverter(doc),
               scrape_id |-> ScrapeId(f.origin, f.jobId)]]

\* `${error}` for a thrown value
ToStr(e) ==
    IF ~e.isError THEN e.str
    ELSE IF e.message = EmptyStr THEN e.name
    ELSE e.name \o <<":", " ">> \o e.message

\* line 116: error && error?.message ? error.message : error
ErrorText(e) == IF e.isError /\ e.message # EmptyStr THEN e.message ELSE ToStr(e)

\* lines 117-121
LLMHint(f) ==
    IF f.extractorOptions # Absent /\ f.extractorOptions[1].mode # "markdown"
    THEN S_LLMSuffix ELSE EmptyStr

\* lines 111-123
ErrorResponse(f, e) ==
    [status |-> StatusInternalError,
     body |-> [success |-> FALSE,
               error |-> S_InternalPrefix \o ErrorText(e) \o <<" ">> \o LLMHint(f)]]

\* line 108: docs[0]
First(ds) == IF Len(ds) = 0 THEN Absent ELSE Some(ds[1])

\* lines 59-123: what the continuation writes to res, and the docs array after it
AfterAwait(f, res) ==
    IF res.kind = "throw"
    THEN [responses |-> <<ErrorResponse(f, res.thrown[1])>>, docs |-> res.docs]
    ELSE IF ~res.success
    THEN [responses |-> <<ErrorResponse(f, ErrorValue(S_Error, res.message))>>, docs |-> res.docs]
    ELSE IF f.earlyReturn
    THEN [responses |-> <<>>, docs |-> res.docs]
    ELSE LET ds == StripMarkdown(f.pageOptions, StripRawHtml(f.pageOptions, res.docs))
         IN  IF ConverterThrows(First(ds))
             THEN [responses |-> <<ErrorResponse(f, ConverterError)>>, docs |-> ds]
             ELSE [responses |-> <<OkResponse(f, ds[1])>>, docs |-> ds]

\* faulty variant: the result is kept in a binding shared by all invocations,
\* so a continuation reads whatever another settled pipeline stored there
AwaitedResult_Shared(r) ==
    LET others == {q \in Requests \ {r} : pipe[q] = "settled"}
    IN  IF others = {} THEN result[r][1] ELSE result[CHOOSE q \in others : TRUE][1]

\* line 36: the value the await of this invocation resolves to
AwaitedResult(r) == result[r][1]

----------------------------------------------------------------------------
(* Actions *)

\* lines 18-57: from entry to the await
Enter(r) ==
    /\ pc[r] = "received"
    /\ IF ProceedsPastParse(body[r])
       THEN LET f == NewFrame(body[r], nextUuid, now)
            IN  /\ frame' = [frame EXCEPT ![r] = Some(f)]
                /\ nextUuid' = nextUuid + 1
                /\ calls' = [calls EXCEPT ![r] = Append(@, PipelineCall(r, body[r], f))]
                /\ pipe' = [pipe EXCEPT ![r] = "running"]
                /\ pc' = [pc EXCEPT ![r] = "awaiting"]
       ELSE /\ pc' = [pc EXCEPT ![r] = "rejected"]
            /\ UNCHANGED <<frame, nextUuid, calls, pipe>>
    /\ UNCHANGED <<body, site, result, sent, now>>

\* startWebScraperPipeline settles, by returning or by throwing
Settle(r) ==
    /\ pipe[r] = "running"
    /\ pipe' = [pipe EXCEPT ![r] = "settled"]
    /\ result' = [result EXCEPT ![r] = Some(site[r])]
    /\ UNCHANGED <<body, site, pc, frame, calls, sent, nextUuid, now>>

\* lines 59-123: the continuation of the await
Resume(r) ==
    /\ pc[r] = "awaiting"
    /\ pipe[r] = "settled"
    /\ LET out == AfterAwait(frame[r][1], AwaitedResult(r))
       IN  /\ sent' = [sent EXCEPT ![r] = @ \o out.responses]
           /\ result' = [result EXCEPT ![r] = Some([@[1] EXCEPT !.docs = out.docs])]
    /\ pc' = [pc EXCEPT ![r] = "done"]
    /\ UNCHANGED <<body, site, frame, calls, pipe, nextUuid, now>>

\* time passes while an invocation is suspended
Tick ==
    /\ now < MaxNow
    /\ \E r \in Requests : pc[r] = "awaiting"
    /\ now' = now + 1
    /\ UNCHANGED <<body, site, pc, frame, calls, pipe, result, sent, nextUuid>>

Next ==
    \/ \E r \in Requests : Enter(r)
    \/ \E r \in Requests : Settle(r)
    \/ \E r \in Requests : Resume(r)
    \/ Tick

----------------------------------------------------------------------------
(* Specifications *)

InitCommon ==
    /\ frame = [r \in Requests |-> Absent]
    /\ calls = [r \in Requests |-> <<>>]
    /\ pipe = [r \in Requests |-> "idle"]
    /\ result = [r \in Requests |-> Absent]
    /\ sent = [r \in Requests |-> <<>>]
    /\ nextUuid = 1
    /\ now = 0

\* a request that is never submitted
NoBody(r) ==
    [url |-> Some(UrlOf(r)), formats |-> {"markdown"}, origin |-> Absent,
     timeout |-> 1, extract |-> FALSE, unknownKeys |-> FALSE]

\* one request, every body and every pipeline outcome
Init ==
    /\ \E b \in Bodies("r1") : body = [r \in Requests |-> IF r = "r1" THEN b ELSE NoBody(r)]
    /\ \E o \in Outcomes("r1") :
          site = [r \in Requests |-> IF r = "r1" THEN o ELSE Returned(TRUE, EmptyStr, <<>>)]
    /\ pc = [r \in Requests |-> IF r = "r1" THEN "received" ELSE "none"]
    /\ InitCommon

Spec == Init /\ [][Next]_vars

----------------------------------------------------------------------------
(* Two concurrent requests *)

ConcBodies(r) ==
    { [url |-> Some(UrlOf(r)), formats |-> {"markdown"}, origin |-> Some(S_website),
       timeout |-> 1, extract |-> FALSE, unknownKeys |-> FALSE],
      [url |-> Some(UrlOf(r)), formats |-> {"extract"}, origin |-> Some(S_api),
       timeout |-> 1, extract |-> TRUE, unknownKeys |-> FALSE],
      [url |-> Some(UrlOf(r)), formats |-> {"markdown", "rawHtml"}, origin |-> Absent,
       timeout |-> 1, extract |-> FALSE, unknownKeys |-> FALSE],
      [url |-> Some(UrlOf(r)), formats |-> {"markdown"}, origin |-> Some(S_website),
       timeout |-> 1, extract |-> FALSE, unknownKeys |-> TRUE] }

ConcOutcomes(r) ==
    {Returned(TRUE, EmptyStr, <<d>>) : d \in DocValues(r) \ {NullDoc}}
    \cup {Returned(FALSE, S_boom, <<>>)}

InitConc ==
    /\ body \in [Requests -> UNION {ConcBodies(r) : r \in Requests}]
    /\ \A r \in Requests : body[r] \in ConcBodies(r)
    /\ site \in [Requests -> UNION {ConcOutcomes(r) : r \in Requests}]
    /\ \A r \in Requests : site[r] \in ConcOutcomes(r)
    /\ pc = [r \in Requests |-> "received"]
    /\ InitCommon

SpecConc == InitConc /\ [][Next]_vars

----------------------------------------------------------------------------
(* Vocabulary of the properties *)

Done(r) == pc[r] = "done"

\* the pipeline returned success for r and the continuation has run
Succeeded(r) == Done(r) /\ site[r].kind = "return" /\ site[r].success

\* the response r received
Resp(r) == sent[r][1]

Answered200(r) == Done(r) /\ Len(sent[r]) = 1 /\ Resp(r).status = 200

\* the docs array of r after the continuation, and as the pipeline produced it
DocsAfter(r) == result[r][1].docs
DocsProduced(r) == site[r].docs

Wants(r, fmt) == fmt \in body[r].formats

----------------------------------------------------------------------------
(* Properties *)

\* C1: (as claimed) for a validated request the pipeline result decides the
\* response: success gives 200, success=true and data equal to the converted
\* first document; success=false or a throw gives a 4xx/5xx, success=false and
\* an error string containing the pipeline's message; never 200 with failure.
C1_PipelineDecides ==
    \A r \in Requests :
        Done(r) =>
            /\ Len(sent[r]) = 1
            /\ IF site[r].kind = "return" /\ site[r].success
               THEN /\ Resp(r).status = 200
                    /\ Resp(r).body.success
                    /\ Len(DocsAfter(r)) > 0
                    /\ DocsAfter(r)[1] # NullDoc
                    /\ Resp(r).body.data = legacyDocumentConverter(DocsAfter(r)[1])
               ELSE /\ Resp(r).status \in 400..599
                    /\ ~Resp(r).body.success
                    /\ Includes(Resp(r).body.error,
                                IF site[r].kind = "throw"
                                THEN (IF site[r].thrown[1].isError
                                      THEN site[r].thrown[1].message
                                      ELSE site[r].thrown[1].str)
                                ELSE site[r].message)

\* C1, the part that holds: a 200 is sent only for a pipeline run that reported
\* success, and every success=false body carries status 500.
C1_NoFalseSuccess ==
    \A r \in Requests :
        \A i \in 1..Len(sent[r]) :
            /\ sent[r][i].status = 200 =>
                   sent[r][i].body.success /\ site[r].kind = "return" /\ site[r].success
            /\ ~sent[r][i].body.success => sent[r][i].status = 500

\* C2: (as claimed) no response is sent while the pipeline is running and the
\* timeout has not elapsed, and once the timeout has elapsed with the pipeline
\* still running the request has been answered.
C2_SynchronousUntilTimeout ==
    \A r \in Requests :
        (pc[r] = "awaiting" /\ pipe[r] = "running") =>
            IF now - frame[r][1].startTime <= frame[r][1].timeout
            THEN sent[r] = <<>>
            ELSE sent[r] # <<>>

\* C2, the part that holds: nothing is sent before the pipeline has settled.
C2_NoResponseWhileRunning ==
    \A r \in Requests : pipe[r] = "running" => sent[r] = <<>>

\* C3: (as claimed) every Document of a 200 response that carries no error has
\* its markdown, whatever formats were requested, when the pipeline's
\* document had markdown.
C3_MarkdownAlwaysPresent ==
    \A r \in Requests :
        (Answered200(r) /\ DocsProduced(r)[1].markdown # Absent
                        /\ Resp(r).body.data.error = Absent)
            => Resp(r).body.data.markdown # Absent

\* C3 (amended): the same, except when extract is requested and markdown is
\* not: there the controller deletes a non-empty markdown, and the Document of
\* the response has none.  In every other case the pipeline's markdown is
\* returned as it was.
C3_MarkdownUnlessExtractOnly ==
    \A r \in Requests :
        (Answered200(r) /\ DocsProduced(r)[1].markdown # Absent
                        /\ Resp(r).body.data.error = Absent)
            => IF Wants(r, "extract") /\ ~Wants(r, "markdown")
                  /\ DocsProduced(r)[1].markdown # Some("")
               THEN Resp(r).body.data.markdown = Absent
               ELSE Resp(r).body.data.markdown = DocsProduced(r)[1].markdown

C3_Witness ==
    \E r \in Requests :
        /\ Answered200(r)
        /\ Wants(r, "extract") /\ ~Wants(r, "markdown")
        /\ DocsProduced(r)[1].markdown = Some("# Hi")
        /\ Resp(r).body.data.error = Absent
        /\ Resp(r).body.data.markdown = Absent

\* C4: a request whose body the schema rejects never gets a job id, never
\* starts the pipeline and never receives a 200/success=true response.
C4_RejectedDoesNoWork ==
    \A r \in Requests :
        (body[r] \in InvalidBodies(r)) =>
            /\ frame[r] = Absent
            /\ calls[r] = <<>>
            /\ pipe[r] = "idle"
            /\ \A i \in 1..Len(sent[r]) :
                   ~(sent[r][i].status = 200 /\ sent[r][i].body.success)

C4_Witness ==
    \E r \in Requests :
        /\ pc[r] = "rejected"
        /\ body[r].unknownKeys
        /\ nextUuid = 1

\* C5: a validated request invokes startWebScraperPipeline exactly once, never
\* again after a failure, with mode single_urls, the request's url, the
\* caller's team id, priority 100 and one fresh id as job id and as token.
C5_OneSingleUrlJob ==
    \A r \in Requests :
        /\ Len(calls[r]) <= 1
        /\ pc[r] \in {"awaiting", "done"} <=> Len(calls[r]) = 1
        /\ Len(calls[r]) = 1 =>
               /\ calls[r][1].mode = "single_urls"
               /\ calls[r][1].url = Some(UrlOf(r))
               /\ calls[r][1].team_id = TeamOf(r)
               /\ calls[r][1].priority = 100
               /\ calls[r][1].id = calls[r][1].token
               /\ calls[r][1].id = frame[r][1].jobId
               /\ \A q \in Requests \ {r} :
                      Len(calls[q]) = 1 => calls[q][1].id # calls[r][1].id

C5_Witness ==
    /\ \A r \in Requests : Done(r) /\ Len(calls[r]) = 1
    /\ \E r \in Requests : ~site[r].success /\ Resp(r).status = 500

\* C6: when includeRawHtml is not set no document is left with a non-empty
\* rawHtml after the post-processing; when it is set every rawHtml is as the
\* pipeline produced it.
C6_RawHtmlOnlyWhenRequested ==
    \A r \in Requests :
        Succeeded(r) =>
            /\ Len(DocsAfter(r)) = Len(DocsProduced(r))
            /\ \A i \in 1..Len(DocsAfter(r)) :
                   DocsAfter(r)[i] # NullDoc =>
                       IF frame[r][1].pageOptions[1].includeRawHtml
                       THEN /\ DocsProduced(r)[i] # NullDoc
                            /\ DocsAfter(r)[i].rawHtml = DocsProduced(r)[i].rawHtml
                       ELSE DocsAfter(r)[i].rawHtml \in {Absent, Some("")}

C6_Witness ==
    \E r \in Requests :
        /\ Succeeded(r)
        /\ ~frame[r][1].pageOptions[1].includeRawHtml
        /\ Len(DocsProduced(r)) = 2
        /\ \A i \in 1..2 : /\ DocsProduced(r)[i] # NullDoc
                           /\ DocsProduced(r)[i].rawHtml = Some("<h1>Hi</h1>")
                           /\ DocsAfter(r)[i].rawHtml = Absent

\* C7: the scrape id of a 200 response is present exactly when the origin
\* contains "website", and then it is the job id given to the pipeline for
\* the same request; otherwise (an absent origin included) it is undefined.
C7_ScrapeIdIffWebsiteOrigin ==
    \A r \in Requests :
        Answered200(r) =>
            IF body[r].origin \in {Some(S_website), Some(S_mywebsite)}
            THEN Resp(r).body.scrape_id = Some(calls[r][1].id)
            ELSE Resp(r).body.scrape_id = Absent

C7_Witness ==
    \E r \in Requests :
        /\ Answered200(r)
        /\ body[r].origin = Some(S_mywebsite)
        /\ Resp(r).body.scrape_id = Some(calls[r][1].id)

\* C8: once the pipeline call of a validated request has settled the
\* continuation can run, and it sends exactly one response: earlyReturn is
\* never true, and an exception raised after the pipeline succeeded (docs
\* empty) gives the one 500 of the catch block.
C8_ExactlyOneResponse ==
    \A r \in Requests :
        /\ Len(sent[r]) <= 1
        /\ frame[r] # Absent => ~frame[r][1].earlyReturn
        /\ (pc[r] = "awaiting" /\ pipe[r] = "settled") => ENABLED Resume(r)
        /\ Done(r) => Len(sent[r]) = 1
        /\ (Succeeded(r) /\ DocsProduced(r) = <<>>) =>
               sent[r] = <<ErrorResponse(frame[r][1], ConverterError)>>

C8_Witness ==
    \E r \in Requests :
        /\ Succeeded(r)
        /\ DocsProduced(r) = <<>>
        /\ Len(sent[r]) = 1
        /\ Resp(r).status = 500

\* C9: the post-processing changes nothing but rawHtml (removed only when
\* includeRawHtml is not set) and markdown (removed only when includeExtract
\* is set and includeMarkdown is not): without extract markdown stays, and
\* the number, the order and the other fields of the documents are kept.
C9_PostProcessingFrame ==
    \A r \in Requests :
        Done(r) =>
            /\ Len(DocsAfter(r)) = Len(DocsProduced(r))
            /\ \A i \in 1..Len(DocsAfter(r)) :
                   LET a == DocsAfter(r)[i]
                       p == DocsProduced(r)[i]
                       po == frame[r][1].pageOptions[1]
                   IN  IF p = NullDoc THEN a = NullDoc
                       ELSE /\ a # NullDoc
                            /\ a.sourceURL = p.sourceURL
                            /\ a.pageError = p.pageError
                            /\ a.rawHtml \in {p.rawHtml, Absent}
                            /\ a.markdown \in {p.markdown, Absent}
                            /\ a.rawHtml # p.rawHtml => ~po.includeRawHtml
                            /\ a.markdown # p.markdown =>
                                   po.includeExtract /\ ~po.includeMarkdown
                            /\ ~po.includeExtract => a.markdown = p.markdown

C9_Witness ==
    \E r \in Requests :
        /\ Succeeded(r)
        /\ ~frame[r][1].pageOptions[1].includeExtract
        /\ ~frame[r][1].pageOptions[1].includeMarkdown
        /\ Len(DocsProduced(r)) = 2
        /\ DocsProduced(r)[1] = NullDoc
        /\ DocsProduced(r)[2] # NullDoc
        /\ DocsProduced(r)[2].markdown = Some("# Hi")
        /\ DocsAfter(r)[2].markdown = Some("# Hi")
        /\ DocsAfter(r)[2].rawHtml # DocsProduced(r)[2].rawHtml

\* C10: with two invocations interleaved at their awaits, each response is
\* built from the documents of its own pipeline invocation, post-processed by
\* its own page options, and carries its own job id, in whatever order the
\* two pipelines settle and the two continuations run.
C10_RequestsIsolated ==
    \A r \in Requests :
        Done(r) =>
            /\ Len(sent[r]) = 1
            /\ IF site[r].success
               THEN LET p == DocsProduced(r)[1]
                        d == Resp(r).body.data
                    IN  /\ Resp(r).status = 200
                        /\ d.sourceUrl = UrlOf(r)
                        /\ d.error = p.pageError
                        /\ d.markdown =
                               IF Wants(r, "extract") /\ ~Wants(r, "markdown")
                                  /\ p.markdown # Some("")
                               THEN Absent ELSE p.markdown
                        /\ d.rawHtml =
                               IF ~Wants(r, "rawHtml") /\ p.rawHtml # Some("")
                               THEN Absent ELSE p.rawHtml
                        /\ Resp(r).body.scrape_id \in {Absent, Some(frame[r][1].jobId)}
                        /\ \A q \in Requests \ {r} :
                               frame[q] # Absent => frame[q][1].jobId # frame[r][1].jobId
               ELSE Resp(r).status = 500

C10_Witness ==
    /\ \A r \in Requests : Answered200(r)
    /\ body["r1"].formats = {"extract"}
    /\ body["r2"].formats = {"markdown", "rawHtml"}
    /\ DocsProduced("r1")[1].rawHtml = Some("<h1>Hi</h1>")
    /\ DocsProduced("r2")[1].rawHtml = Some("<h1>Hi</h1>")
    /\ Resp("r1").body.data.rawHtml = Absent
    /\ Resp("r2").body.data.rawHtml = Some("<h1>Hi</h1>")
    /\ frame["r2"][1].jobId < frame["r1"][1].jobId

====
